---------------------------- MODULE Spec2Model ----------------------------
(***************************************************************************)
(* A model of alin_capabilities.py: the script calls display_capabilities, *)
(* which prints a banner, builds the capabilities dict, prints one section *)
(* per category and a trailer, and returns.                                *)
(*                                                                         *)
(* A Python str is modelled as the sequence of its code points, so that    *)
(* len(), "*" repetition, concatenation and the newline handling of the    *)
(* output stream are computed rather than assumed.  A text stream is the   *)
(* sequence of the lines completed so far plus the pending partial line.   *)
(* pc holds the source line of the statement about to execute.             *)
(***************************************************************************)
EXTENDS Integers, Sequences, FiniteSets, TLC

VARIABLES
  pc,          \* source line of the next statement (PcMain, 8..81, PcEnd, PcDone)
  stdout,      \* [lines, cur]: completed lines and the pending partial line
  stderr,      \* the error stream, same shape
  locals,      \* the local bindings of display_capabilities: name -> value
  iters,       \* stack of the positions of the active for-loop iterators
  exitStatus,  \* NoStatus while the process runs, then its exit status
  itemsCalls,  \* how many times capabilities.items() has been evaluated
  prevOut      \* <<>>, or <<s>> with s the stdout of the previous complete run

vars == <<pc, stdout, stderr, locals, iters, exitStatus, itemsCalls, prevOut>>

(* Positions of the script outside the function body. *)
PcMain == 84
PcEnd == 85
PcDone == 0
NoStatus == -1

(* Code points used by the formatting code. *)
NL == 10
SP == 32
DASH == 45
EQUALS == 61
BULLET == 8226

(* Widths of the "=" separator (lines 8, 11, 79, 81) and of the "-" rule   *)
(* (lines 58, 66).                                                         *)
SeparatorWidth == 60
RuleWidth == 40

(* String literals of the print statements, as sequences of code points. *)
StmtLiteral ==
  (* line 9: "U+1F916 ALIN - Artificial Life Intelligence Network" *)
     9 :> <<129302, 32, 65, 76, 73, 78, 32, 45, 32, 65, 114, 116, 105, 102, 105, 99, 105, 97, 108, 32, 76, 105, 102, 101, 32, 73, 110, 116, 101, 108, 108, 105, 103, 101, 110, 99, 101, 32, 78, 101, 116, 119, 111, 114, 107>>
  (* line 10: "   Your Advanced AI Assistant with Real Tools" *)
  @@ 10 :> <<32, 32, 32, 89, 111, 117, 114, 32, 65, 100, 118, 97, 110, 99, 101, 100, 32, 65, 73, 32, 65, 115, 115, 105, 115, 116, 97, 110, 116, 32, 119, 105, 116, 104, 32, 82, 101, 97, 108, 32, 84, 111, 111, 108, 115>>
  (* line 57: "\nU+1F31F MY CORE CAPABILITIES:" *)
  @@ 57 :> <<10, 127775, 32, 77, 89, 32, 67, 79, 82, 69, 32, 67, 65, 80, 65, 66, 73, 76, 73, 84, 73, 69, 83, 58>>
  (* line 67: "\nU+1F680 WHAT MAKES ME SPECIAL:" *)
  @@ 67 :> <<10, 128640, 32, 87, 72, 65, 84, 32, 77, 65, 75, 69, 83, 32, 77, 69, 32, 83, 80, 69, 67, 73, 65, 76, 58>>
  (* line 68: "  U+2713 Real functional tools, not just chat" *)
  @@ 68 :> <<32, 32, 10003, 32, 82, 101, 97, 108, 32, 102, 117, 110, 99, 116, 105, 111, 110, 97, 108, 32, 116, 111, 111, 108, 115, 44, 32, 110, 111, 116, 32, 106, 117, 115, 116, 32, 99, 104, 97, 116>>
  (* line 69: "  U+2713 Internet browsing & current info" *)
  @@ 69 :> <<32, 32, 10003, 32, 73, 110, 116, 101, 114, 110, 101, 116, 32, 98, 114, 111, 119, 115, 105, 110, 103, 32, 38, 32, 99, 117, 114, 114, 101, 110, 116, 32, 105, 110, 102, 111>>
  (* line 70: "  U+2713 Persistent memory across sessions" *)
  @@ 70 :> <<32, 32, 10003, 32, 80, 101, 114, 115, 105, 115, 116, 101, 110, 116, 32, 109, 101, 109, 111, 114, 121, 32, 97, 99, 114, 111, 115, 115, 32, 115, 101, 115, 115, 105, 111, 110, 115>>
  (* line 71: "  U+2713 Code execution & file access" *)
  @@ 71 :> <<32, 32, 10003, 32, 67, 111, 100, 101, 32, 101, 120, 101, 99, 117, 116, 105, 111, 110, 32, 38, 32, 102, 105, 108, 101, 32, 97, 99, 99, 101, 115, 115>>
  (* line 72: "  U+2713 Complex problem-solving workflows" *)
  @@ 72 :> <<32, 32, 10003, 32, 67, 111, 109, 112, 108, 101, 120, 32, 112, 114, 111, 98, 108, 101, 109, 45, 115, 111, 108, 118, 105, 110, 103, 32, 119, 111, 114, 107, 102, 108, 111, 119, 115>>
  (* line 74: "\nU+1F4A1 READY TO HELP WITH:" *)
  @@ 74 :> <<10, 128161, 32, 82, 69, 65, 68, 89, 32, 84, 79, 32, 72, 69, 76, 80, 32, 87, 73, 84, 72, 58>>
  (* line 75: "  Research U+2022 Coding U+2022 Data Analysis" *)
  @@ 75 :> <<32, 32, 82, 101, 115, 101, 97, 114, 99, 104, 32, 8226, 32, 67, 111, 100, 105, 110, 103, 32, 8226, 32, 68, 97, 116, 97, 32, 65, 110, 97, 108, 121, 115, 105, 115>>
  (* line 76: "  File Management U+2022 System Tasks" *)
  @@ 76 :> <<32, 32, 70, 105, 108, 101, 32, 77, 97, 110, 97, 103, 101, 109, 101, 110, 116, 32, 8226, 32, 83, 121, 115, 116, 101, 109, 32, 84, 97, 115, 107, 115>>
  (* line 77: "  Complex Multi-Step Projects" *)
  @@ 77 :> <<32, 32, 67, 111, 109, 112, 108, 101, 120, 32, 77, 117, 108, 116, 105, 45, 83, 116, 101, 112, 32, 80, 114, 111, 106, 101, 99, 116, 115>>
  (* line 80: "U+1F3AF ALIN - Your AI Operating System" *)
  @@ 80 :> <<127919, 32, 65, 76, 73, 78, 32, 45, 32, 89, 111, 117, 114, 32, 65, 73, 32, 79, 112, 101, 114, 97, 116, 105, 110, 103, 32, 83, 121, 115, 116, 101, 109>>

(* The key/value pairs of the dict literal, in the order they are written. *)
CapabilityPairs ==
  <<
    (* line 14: "U+1F50D WEB SEARCH & RESEARCH" *)
    << <<128269, 32, 87, 69, 66, 32, 83, 69, 65, 82, 67, 72, 32, 38, 32, 82, 69, 83, 69, 65, 82, 67, 72>>,
       <<
          (* line 15: "Real-time internet search" *)
          <<82, 101, 97, 108, 45, 116, 105, 109, 101, 32, 105, 110, 116, 101, 114, 110, 101, 116, 32, 115, 101, 97, 114, 99, 104>>,
          (* line 16: "Current events & news lookup" *)
          <<67, 117, 114, 114, 101, 110, 116, 32, 101, 118, 101, 110, 116, 115, 32, 38, 32, 110, 101, 119, 115, 32, 108, 111, 111, 107, 117, 112>>,
          (* line 17: "Multi-source research" *)
          <<77, 117, 108, 116, 105, 45, 115, 111, 117, 114, 99, 101, 32, 114, 101, 115, 101, 97, 114, 99, 104>>,
          (* line 18: "Dynamic data retrieval" *)
          <<68, 121, 110, 97, 109, 105, 99, 32, 100, 97, 116, 97, 32, 114, 101, 116, 114, 105, 101, 118, 97, 108>>
       >> >>,
    (* line 21: "U+1F9E0 PERSISTENT MEMORY" *)
    << <<129504, 32, 80, 69, 82, 83, 73, 83, 84, 69, 78, 84, 32, 77, 69, 77, 79, 82, 89>>,
       <<
          (* line 22: "8-layer memory architecture" *)
          <<56, 45, 108, 97, 121, 101, 114, 32, 109, 101, 109, 111, 114, 121, 32, 97, 114, 99, 104, 105, 116, 101, 99, 116, 117, 114, 101>>,
          (* line 23: "Cross-session conversation memory" *)
          <<67, 114, 111, 115, 115, 45, 115, 101, 115, 115, 105, 111, 110, 32, 99, 111, 110, 118, 101, 114, 115, 97, 116, 105, 111, 110, 32, 109, 101, 109, 111, 114, 121>>,
          (* line 24: "User preference storage" *)
          <<85, 115, 101, 114, 32, 112, 114, 101, 102, 101, 114, 101, 110, 99, 101, 32, 115, 116, 111, 114, 97, 103, 101>>,
          (* line 25: "Context consolidation" *)
          <<67, 111, 110, 116, 101, 120, 116, 32, 99, 111, 110, 115, 111, 108, 105, 100, 97, 116, 105, 111, 110>>
       >> >>,
    (* line 28: "U+1F4BB CODE EXECUTION" *)
    << <<128187, 32, 67, 79, 68, 69, 32, 69, 88, 69, 67, 85, 84, 73, 79, 78>>,
       <<
          (* line 29: "Python, JavaScript, TypeScript" *)
          <<80, 121, 116, 104, 111, 110, 44, 32, 74, 97, 118, 97, 83, 99, 114, 105, 112, 116, 44, 32, 84, 121, 112, 101, 83, 99, 114, 105, 112, 116>>,
          (* line 30: "Sandboxed safe environment" *)
          <<83, 97, 110, 100, 98, 111, 120, 101, 100, 32, 115, 97, 102, 101, 32, 101, 110, 118, 105, 114, 111, 110, 109, 101, 110, 116>>,
          (* line 31: "Real-time testing & debugging" *)
          <<82, 101, 97, 108, 45, 116, 105, 109, 101, 32, 116, 101, 115, 116, 105, 110, 103, 32, 38, 32, 100, 101, 98, 117, 103, 103, 105, 110, 103>>,
          (* line 32: "Data processing & visualization" *)
          <<68, 97, 116, 97, 32, 112, 114, 111, 99, 101, 115, 115, 105, 110, 103, 32, 38, 32, 118, 105, 115, 117, 97, 108, 105, 122, 97, 116, 105, 111, 110>>
       >> >>,
    (* line 35: "U+1F4C1 FILE OPERATIONS" *)
    << <<128193, 32, 70, 73, 76, 69, 32, 79, 80, 69, 82, 65, 84, 73, 79, 78, 83>>,
       <<
          (* line 36: "Read/write user files" *)
          <<82, 101, 97, 100, 47, 119, 114, 105, 116, 101, 32, 117, 115, 101, 114, 32, 102, 105, 108, 101, 115>>,
          (* line 37: "Directory navigation" *)
          <<68, 105, 114, 101, 99, 116, 111, 114, 121, 32, 110, 97, 118, 105, 103, 97, 116, 105, 111, 110>>,
          (* line 38: "Project analysis" *)
          <<80, 114, 111, 106, 101, 99, 116, 32, 97, 110, 97, 108, 121, 115, 105, 115>>,
          (* line 39: "Secure file management" *)
          <<83, 101, 99, 117, 114, 101, 32, 102, 105, 108, 101, 32, 109, 97, 110, 97, 103, 101, 109, 101, 110, 116>>
       >> >>,
    (* line 42: "U+1F504 WORKFLOW ORCHESTRATION" *)
    << <<128260, 32, 87, 79, 82, 75, 70, 76, 79, 87, 32, 79, 82, 67, 72, 69, 83, 84, 82, 65, 84, 73, 79, 78>>,
       <<
          (* line 43: "Multi-step task coordination" *)
          <<77, 117, 108, 116, 105, 45, 115, 116, 101, 112, 32, 116, 97, 115, 107, 32, 99, 111, 111, 114, 100, 105, 110, 97, 116, 105, 111, 110>>,
          (* line 44: "Parallel processing" *)
          <<80, 97, 114, 97, 108, 108, 101, 108, 32, 112, 114, 111, 99, 101, 115, 115, 105, 110, 103>>,
          (* line 45: "Dependency management" *)
          <<68, 101, 112, 101, 110, 100, 101, 110, 99, 121, 32, 109, 97, 110, 97, 103, 101, 109, 101, 110, 116>>,
          (* line 46: "Error handling & recovery" *)
          <<69, 114, 114, 111, 114, 32, 104, 97, 110, 100, 108, 105, 110, 103, 32, 38, 32, 114, 101, 99, 111, 118, 101, 114, 121>>
       >> >>,
    (* line 49: "U+2699U+FE0F SYSTEM MONITORING" *)
    << <<9881, 65039, 32, 83, 89, 83, 84, 69, 77, 32, 77, 79, 78, 73, 84, 79, 82, 73, 78, 71>>,
       <<
          (* line 50: "Hardware status tracking" *)
          <<72, 97, 114, 100, 119, 97, 114, 101, 32, 115, 116, 97, 116, 117, 115, 32, 116, 114, 97, 99, 107, 105, 110, 103>>,
          (* line 51: "Performance metrics" *)
          <<80, 101, 114, 102, 111, 114, 109, 97, 110, 99, 101, 32, 109, 101, 116, 114, 105, 99, 115>>,
          (* line 52: "Resource utilization" *)
          <<82, 101, 115, 111, 117, 114, 99, 101, 32, 117, 116, 105, 108, 105, 122, 97, 116, 105, 111, 110>>,
          (* line 53: "Health diagnostics" *)
          <<72, 101, 97, 108, 116, 104, 32, 100, 105, 97, 103, 110, 111, 115, 116, 105, 99, 115>>
       >> >>
  >>

(* The category names in the order the documentation lists them. *)
ClaimedLabelNames ==
  <<
    (* "WEB SEARCH & RESEARCH" *)
    <<87, 69, 66, 32, 83, 69, 65, 82, 67, 72, 32, 38, 32, 82, 69, 83, 69, 65, 82, 67, 72>>,
    (* "PERSISTENT MEMORY" *)
    <<80, 69, 82, 83, 73, 83, 84, 69, 78, 84, 32, 77, 69, 77, 79, 82, 89>>,
    (* "CODE EXECUTION" *)
    <<67, 79, 68, 69, 32, 69, 88, 69, 67, 85, 84, 73, 79, 78>>,
    (* "FILE OPERATIONS" *)
    <<70, 73, 76, 69, 32, 79, 80, 69, 82, 65, 84, 73, 79, 78, 83>>,
    (* "WORKFLOW ORCHESTRATION" *)
    <<87, 79, 82, 75, 70, 76, 79, 87, 32, 79, 82, 67, 72, 69, 83, 84, 82, 65, 84, 73, 79, 78>>,
    (* "SYSTEM MONITORING" *)
    <<83, 89, 83, 84, 69, 77, 32, 77, 79, 78, 73, 84, 79, 82, 73, 78, 71>>
  >>

(***************************************************************************)
(* str operations                                                          *)
(***************************************************************************)

(* s * n: n copies of s, the empty str when n <= 0. *)
StrMul(s, n) ==
  IF n <= 0 THEN <<>> ELSE [i \in 1..(n * Len(s)) |-> s[((i - 1) % Len(s)) + 1]]

(* Number of bytes of the UTF-8 encoding of a code point / of a str. *)
Utf8Width(c) == IF c < 128 THEN 1 ELSE IF c < 2048 THEN 2 ELSE IF c < 65536 THEN 3 ELSE 4

RECURSIVE Utf8Len(_)
Utf8Len(s) ==
  IF Len(s) = 0 THEN 0
  ELSE IF Len(s) = 1 THEN Utf8Width(s[1])
  ELSE Utf8Len(SubSeq(s, 1, Len(s) \div 2)) + Utf8Len(SubSeq(s, Len(s) \div 2 + 1, Len(s)))

(***************************************************************************)
(* Text streams                                                            *)
(***************************************************************************)

EmptyStream == [lines |-> <<>>, cur |-> <<>>]

(* write(s): the text up to the first newline of s extends the pending     *)
(* line, every newline of s completes a line, and the text after the last  *)
(* newline becomes the pending line.                                       *)
Write(st, s) ==
  LET nls    == {i \in 1..Len(s) : s[i] = NL}
      k      == Cardinality(nls)
      pos(j) == CHOOSE p \in nls : Cardinality({q \in nls : q < p}) = j - 1
      seg(j) == SubSeq(s, IF j = 1 THEN 1 ELSE pos(j - 1) + 1, pos(j) - 1)
  IN  IF k = 0
        THEN [lines |-> st.lines, cur |-> st.cur \o s]
        ELSE [lines |-> st.lines \o [j \in 1..k |-> IF j = 1 THEN st.cur \o seg(1) ELSE seg(j)],
              cur   |-> SubSeq(s, pos(k) + 1, Len(s))]

(* print(s): the text, then end = "\n". *)
PrintLine(st, s) == Write(Write(st, s), <<NL>>)

(***************************************************************************)
(* dict: insertion-ordered mapping                                         *)
(***************************************************************************)

EmptyDict == [order |-> <<>>, map |-> <<>>]

InSeq(x, s) == \E i \in 1..Len(s) : s[i] = x

(* d[k] = v: a new key goes last, an existing key keeps its place. *)
DictSetItem(d, k, v) ==
  [order |-> IF InSeq(k, d.order) THEN d.order ELSE Append(d.order, k),
   map   |-> (k :> v) @@ d.map]

(* { k1: v1, k2: v2, ... } evaluates its pairs left to right. *)
RECURSIVE DictBuild(_, _)
DictBuild(d, pairs) ==
  IF pairs = <<>> THEN d
  ELSE DictBuild(DictSetItem(d, Head(pairs)[1], Head(pairs)[2]), Tail(pairs))

DictLiteral(pairs) == DictBuild(EmptyDict, pairs)

(* Faulty variant of Items: the pairs last to first. *)
ItemsReversed(d) ==
  [i \in 1..Len(d.order) |->
     <<d.order[Len(d.order) + 1 - i], d.map[d.order[Len(d.order) + 1 - i]]>>]

(* d.items(): the (key, value) pairs in insertion order. *)
Items(d) == [i \in 1..Len(d.order) |-> <<d.order[i], d.map[d.order[i]]>>]

(* reversed(s) *)
Reverse(s) == [i \in 1..Len(s) |-> s[Len(s) + 1 - i]]

(***************************************************************************)
(* Local bindings                                                          *)
(***************************************************************************)

NoLocals == <<>>

(* name = v: the binding is added, or replaces the earlier one. *)
Bind(l, name, v) == (name :> v) @@ l

Bound(name) == name \in DOMAIN locals

(***************************************************************************)
(* The arguments of the print statements                                   *)
(***************************************************************************)

(* Faulty variant of ArgText: the last line is as wide as the rule. *)
ArgTextShortFooter(l) ==
  CASE l \in {8, 11}  -> StrMul(<<EQUALS>>, SeparatorWidth)
    [] l = 81         -> StrMul(<<EQUALS>>, RuleWidth)
    [] l = 58         -> StrMul(<<DASH>>, RuleWidth)
    [] l = 66         -> <<NL>> \o StrMul(<<DASH>>, RuleWidth)
    [] l = 79         -> <<NL>> \o StrMul(<<EQUALS>>, SeparatorWidth)
    [] OTHER          -> StmtLiteral[l]

(* The argument of the print statement at line l, for the statements whose *)
(* argument names no local variable.                                       *)
ArgText(l) ==
  CASE l \in {8, 11, 81} -> StrMul(<<EQUALS>>, SeparatorWidth)
    [] l = 58            -> StrMul(<<DASH>>, RuleWidth)
    [] l = 66            -> <<NL>> \o StrMul(<<DASH>>, RuleWidth)
    [] l = 79            -> <<NL>> \o StrMul(<<EQUALS>>, SeparatorWidth)
    [] OTHER             -> StmtLiteral[l]

(* f"\n{category}" *)
CategoryText(category) == <<NL>> \o category

(* Faulty variant of UnderlineText: one dash per UTF-8 byte of the label. *)
UnderlineUtf8(category) == StrMul(<<DASH>>, Utf8Len(category))

(* Faulty variant of UnderlineText: always as wide as the rule. *)
UnderlineFixedWidth(category) == StrMul(<<DASH>>, RuleWidth)

(* "-" * len(category) *)
UnderlineText(category) == StrMul(<<DASH>>, Len(category))

(* Faulty variant of FeatureText: a dash in place of the bullet. *)
FeatureTextDash(feature) == <<SP, SP, DASH, SP>> \o feature

(* f"  <bullet> {feature}" *)
FeatureText(feature) == <<SP, SP, BULLET, SP>> \o feature

(***************************************************************************)
(* Statement order                                                         *)
(***************************************************************************)

(* Faulty variant of NextStmt: the heading is printed before the dict is    *)
(* built.                                                                  *)
NextStmtLateBuild(l) ==
  CASE l = 11 -> 57
    [] l = 58 -> 13
    [] l = 13 -> 60
    [] l = 72 -> 74
    [] l = 77 -> 79
    [] l = 81 -> PcEnd
    [] OTHER  -> l + 1

(* The statement that follows line l in straight-line order (blank lines   *)
(* and the lines of the dict literal are skipped; line 81 is the last      *)
(* statement of the function, after which the call at line 84 returns).    *)
NextStmt(l) ==
  CASE l = 11 -> 13
    [] l = 13 -> 57
    [] l = 58 -> 60
    [] l = 72 -> 74
    [] l = 77 -> 79
    [] l = 81 -> PcEnd
    [] OTHER  -> l + 1

(***************************************************************************)
(* Initial state and actions                                               *)
(***************************************************************************)

Init ==
  /\ pc = PcMain
  /\ stdout = EmptyStream
  /\ stderr = EmptyStream
  /\ locals = NoLocals
  /\ iters = <<>>
  /\ exitStatus = NoStatus
  /\ itemsCalls = 0
  /\ prevOut = <<>>

(* Line 84: display_capabilities() is called; its frame starts empty. *)
Call ==
  /\ pc = PcMain
  /\ pc' = 8
  /\ locals' = NoLocals
  /\ UNCHANGED <<stdout, stderr, iters, exitStatus, itemsCalls, prevOut>>

(* A print statement whose argument is ArgText(l). *)
PrintStmt(l) ==
  /\ pc = l
  /\ stdout' = PrintLine(stdout, ArgText(l))
  /\ pc' = NextStmt(l)
  /\ UNCHANGED <<stderr, locals, iters, exitStatus, itemsCalls, prevOut>>

(* Lines 8-11. *)
PrintBanner == \E l \in 8..11 : PrintStmt(l)

(* Faulty variant of BuildCapabilities: a trailing empty entry. *)
BuildCapabilitiesEmptyEntry ==
  /\ pc = 13
  /\ locals' = Bind(locals, "capabilities",
                    DictLiteral(Append(CapabilityPairs, <<<<>>, <<>>>>)))
  /\ pc' = NextStmt(13)
  /\ UNCHANGED <<stdout, stderr, iters, exitStatus, itemsCalls, prevOut>>

(* Faulty variant of BuildCapabilities: a mapping without a fixed order. *)
BuildCapabilitiesUnordered ==
  /\ pc = 13
  /\ \E pairs \in {CapabilityPairs, Reverse(CapabilityPairs)} :
       locals' = Bind(locals, "capabilities", DictLiteral(pairs))
  /\ pc' = NextStmt(13)
  /\ UNCHANGED <<stdout, stderr, iters, exitStatus, itemsCalls, prevOut>>

(* Lines 13-55: capabilities = { ... } *)
BuildCapabilities ==
  /\ pc = 13
  /\ locals' = Bind(locals, "capabilities", DictLiteral(CapabilityPairs))
  /\ pc' = NextStmt(13)
  /\ UNCHANGED <<stdout, stderr, iters, exitStatus, itemsCalls, prevOut>>

(* Lines 57-58. *)
PrintHeading == \E l \in 57..58 : PrintStmt(l)

(* Line 60, on entry: capabilities.items() is evaluated once and an        *)
(* iterator over it is created.                                            *)
GetItems ==
  /\ pc = 60
  /\ Len(iters) = 0
  /\ Bound("capabilities")
  /\ iters' = <<0>>
  /\ itemsCalls' = itemsCalls + 1
  /\ UNCHANGED <<pc, stdout, stderr, locals, exitStatus, prevOut>>

(* Faulty variant of ForCategory: the loop never ends. *)
ForCategoryStuck ==
  /\ pc = 60
  /\ Len(iters) = 1
  /\ LET items == Items(locals.capabilities)
         i     == iters[1]
     IN  IF i < Len(items)
           THEN /\ locals' = Bind(Bind(locals, "category", items[i + 1][1]),
                                  "features", items[i + 1][2])
                /\ iters' = <<i + 1>>
                /\ pc' = 61
           ELSE /\ UNCHANGED <<locals, iters, pc>>
  /\ UNCHANGED <<stdout, stderr, exitStatus, itemsCalls, prevOut>>

(* Line 60, each iteration: the next (category, features) pair is bound,   *)
(* or the loop ends and control passes to line 66.                         *)
ForCategory ==
  /\ pc = 60
  /\ Len(iters) = 1
  /\ LET items == Items(locals.capabilities)
         i     == iters[1]
     IN  IF i < Len(items)
           THEN /\ locals' = Bind(Bind(locals, "category", items[i + 1][1]),
                                  "features", items[i + 1][2])
                /\ iters' = <<i + 1>>
                /\ pc' = 61
           ELSE /\ iters' = <<>>
                /\ pc' = 66
                /\ UNCHANGED locals
  /\ UNCHANGED <<stdout, stderr, exitStatus, itemsCalls, prevOut>>

(* Line 61. *)
PrintCategory ==
  /\ pc = 61
  /\ stdout' = PrintLine(stdout, CategoryText(locals.category))
  /\ pc' = NextStmt(61)
  /\ UNCHANGED <<stderr, locals, iters, exitStatus, itemsCalls, prevOut>>

(* Line 62. *)
PrintUnderline ==
  /\ pc = 62
  /\ stdout' = PrintLine(stdout, UnderlineText(locals.category))
  /\ pc' = NextStmt(62)
  /\ UNCHANGED <<stderr, locals, iters, exitStatus, itemsCalls, prevOut>>

(* Line 63, on entry: an iterator over features is created. *)
GetFeatures ==
  /\ pc = 63
  /\ Len(iters) = 1
  /\ iters' = Append(iters, 0)
  /\ UNCHANGED <<pc, stdout, stderr, locals, exitStatus, itemsCalls, prevOut>>

(* Faulty variant of ForFeature: each feature is removed from the mapping   *)
(* as it is taken.                                                         *)
ForFeatureConsuming ==
  /\ pc = 63
  /\ Len(iters) = 2
  /\ LET caps == locals.capabilities
         rest == caps.map[locals.category]
     IN  IF rest # <<>>
           THEN /\ locals' = Bind(Bind(locals, "feature", Head(rest)),
                                  "capabilities",
                                  DictSetItem(caps, locals.category, Tail(rest)))
                /\ iters' = <<iters[1], iters[2] + 1>>
                /\ pc' = 64
           ELSE /\ iters' = <<iters[1]>>
                /\ pc' = 60
                /\ UNCHANGED locals
  /\ UNCHANGED <<stdout, stderr, exitStatus, itemsCalls, prevOut>>

(* Line 63, each iteration: the next feature is bound, or the inner loop   *)
(* ends and control returns to line 60.                                    *)
ForFeature ==
  /\ pc = 63
  /\ Len(iters) = 2
  /\ LET j == iters[2]
     IN  IF j < Len(locals.features)
           THEN /\ locals' = Bind(locals, "feature", locals.features[j + 1])
                /\ iters' = <<iters[1], j + 1>>
                /\ pc' = 64
           ELSE /\ iters' = <<iters[1]>>
                /\ pc' = 60
                /\ UNCHANGED locals
  /\ UNCHANGED <<stdout, stderr, exitStatus, itemsCalls, prevOut>>

(* Line 64; the loop body ends and control returns to line 63. *)
PrintFeature ==
  /\ pc = 64
  /\ stdout' = PrintLine(stdout, FeatureText(locals.feature))
  /\ pc' = 63
  /\ UNCHANGED <<stderr, locals, iters, exitStatus, itemsCalls, prevOut>>

(* Lines 66-72. *)
PrintSpecial == \E l \in 66..72 : PrintStmt(l)

(* Lines 74-77. *)
PrintReady == \E l \in 74..77 : PrintStmt(l)

(* Lines 79-81. *)
PrintFooter == \E l \in 79..81 : PrintStmt(l)

(* The call at line 84 has returned and the module ends: the interpreter   *)
(* exits with status 0.  The last bindings of the frame stay recorded.     *)
Exit ==
  /\ pc = PcEnd
  /\ exitStatus' = 0
  /\ pc' = PcDone
  /\ UNCHANGED <<stdout, stderr, locals, iters, itemsCalls, prevOut>>

(* The script is run again (lines 83-84 of a new process); the output of   *)
(* the finished run is kept for comparison.                                *)
Rerun ==
  /\ pc = PcDone
  /\ prevOut' = <<stdout>>
  /\ pc' = PcMain
  /\ stdout' = EmptyStream
  /\ stderr' = EmptyStream
  /\ locals' = NoLocals
  /\ iters' = <<>>
  /\ exitStatus' = NoStatus
  /\ itemsCalls' = 0

(* The steps of one run. *)
Step ==
  \/ Call
  \/ PrintBanner
  \/ BuildCapabilities
  \/ PrintHeading
  \/ GetItems
  \/ ForCategory
  \/ PrintCategory
  \/ PrintUnderline
  \/ GetFeatures
  \/ ForFeature
  \/ PrintFeature
  \/ PrintSpecial
  \/ PrintReady
  \/ PrintFooter
  \/ Exit

Next == Step \/ Rerun

Spec == Init /\ [][Next]_vars

(* Execution is single-threaded and synchronous: the interpreter always    *)
(* executes the next statement of a run that has not finished.             *)
FairSpec == Spec /\ WF_vars(Step)

(***************************************************************************)
(* Vocabulary of the properties                                            *)
(***************************************************************************)

Out == stdout.lines

(* display_capabilities has executed its last statement. *)
Complete == pc \in {PcEnd, PcDone}

HasCaps == Bound("capabilities")

NumCategories == Len(CapabilityPairs)

Label(i) == CapabilityPairs[i][1]

Features(i) == CapabilityPairs[i][2]

Positions(line) == {p \in 1..Len(Out) : Out[p] = line}

LabelPos(i) == CHOOSE p \in Positions(Label(i)) : TRUE

IsSuffix(t, s) == Len(t) <= Len(s) /\ SubSeq(s, Len(s) - Len(t) + 1, Len(s)) = t

IsPrefix(t, s) == Len(t) <= Len(s) /\ SubSeq(s, 1, Len(t)) = t

Separator60 == [i \in 1..60 |-> EQUALS]

Rule40 == [i \in 1..40 |-> DASH]

BulletPrefix == <<SP, SP, BULLET, SP>>

BulletLines == {p \in 1..Len(Out) : IsPrefix(BulletPrefix, Out[p])}

RulePositions == Positions(Rule40)

(* First line past the section of category i: the next label line, or the  *)
(* closing rule for the last category.                                     *)
SectionEnd(i) ==
  IF i < NumCategories THEN LabelPos(i + 1)
  ELSE CHOOSE p \in RulePositions : \A q \in RulePositions : q <= p

RECURSIVE SumFeatures(_)
SumFeatures(n) == IF n = 0 THEN 0 ELSE Len(Features(n)) + SumFeatures(n - 1)

(* Number of executions of the body of the feature loop (line 64) so far,  *)
(* read off the control state: the categories whose inner loop has ended,  *)
(* plus the features of the current category already printed.              *)
FeaturesDone ==
  CASE Len(iters) = 2 -> SumFeatures(iters[1] - 1) + iters[2] - (IF pc = 64 THEN 1 ELSE 0)
    [] Len(iters) = 1 -> IF pc = 60 THEN SumFeatures(iters[1]) ELSE SumFeatures(iters[1] - 1)
    [] OTHER          -> IF pc \in 66..81 \/ Complete THEN SumFeatures(NumCategories) ELSE 0

(***************************************************************************)
(* C1: when display_capabilities has run to completion the output is       *)
(* non-empty, each of the six category labels of the mapping is an output  *)
(* line exactly once, the label lines come in the declared order, and that *)
(* order is WEB SEARCH & RESEARCH, PERSISTENT MEMORY, CODE EXECUTION, FILE *)
(* OPERATIONS, WORKFLOW ORCHESTRATION, SYSTEM MONITORING.                  *)
(***************************************************************************)
C1_LabelsOnceInOrder ==
  Complete =>
    /\ Len(Out) > 0
    /\ NumCategories = Len(ClaimedLabelNames)
    /\ \A i \in 1..NumCategories :
         /\ Cardinality(Positions(Label(i))) = 1
         /\ IsSuffix(ClaimedLabelNames[i], Label(i))
    /\ \A i, j \in 1..NumCategories : i < j => LabelPos(i) < LabelPos(j)

C1_Witness ==
  /\ pc = PcDone
  /\ \A i \in 1..NumCategories : Positions(Label(i)) # {}

(***************************************************************************)
(* C2: after a complete run, for every category c and every feature f of   *)
(* c the line "  <bullet> f" lies after c's label line and before the next *)
(* label line (the closing 40-dash rule for the last category), and the    *)
(* feature lines of a section are in the order of c's feature list.        *)
(***************************************************************************)
C2_FeaturesInSection ==
  Complete =>
    \A i \in 1..NumCategories :
      /\ Positions(Label(i)) # {}
      /\ RulePositions # {}
      /\ LET inside == {p \in 1..Len(Out) : LabelPos(i) < p /\ p < SectionEnd(i)}
             n      == Len(Features(i))
         IN  \E f \in [1..n -> inside] :
               /\ \A k \in 1..n : Out[f[k]] = BulletPrefix \o Features(i)[k]
               /\ \A k, m \in 1..n : k < m => f[k] < f[m]

C2_Witness ==
  /\ pc = PcDone
  /\ \A i \in 1..NumCategories :
       \A k \in 1..Len(Features(i)) : Positions(BulletPrefix \o Features(i)[k]) # {}

(***************************************************************************)
(* C3: the first and the last line written by a complete run are both      *)
(* exactly 60 "=" characters.                                              *)
(***************************************************************************)
C3_SeparatorFirstAndLast ==
  Complete =>
    /\ Len(Out) >= 2
    /\ stdout.cur = <<>>
    /\ Out[1] = Separator60
    /\ Out[Len(Out)] = Separator60

C3_Witness == pc = PcDone /\ Len(Out) >= 2 /\ Out[Len(Out)] = Separator60

(***************************************************************************)
(* C4: every run terminates: a started run always reaches its final state, *)
(* after a bounded number of output lines, with exit status 0, and nothing *)
(* is ever written to the error stream.                                    *)
(***************************************************************************)
C4_TerminatesWithStatusZero ==
  /\ (pc = PcMain) ~> (pc = PcDone /\ exitStatus = 0)
  /\ [](pc = PcDone => exitStatus = 0)
  /\ [](exitStatus \in {NoStatus, 0})
  /\ [](stderr = EmptyStream)
  /\ [](Len(Out) <= 4 + 2 + 3 * NumCategories + SumFeatures(NumCategories) + 19)

C4_Witness == pc = PcDone /\ exitStatus = 0 /\ stderr = EmptyStream /\ Out # <<>>

(***************************************************************************)
(* C5: any two complete runs produce the same output: the output of a      *)
(* complete run equals the output of the complete run before it.           *)
(***************************************************************************)
C5_RerunSameOutput == (Complete /\ prevOut # <<>>) => stdout = prevOut[1]

C5_Witness == pc = PcDone /\ prevOut # <<>> /\ Len(prevOut[1].lines) > 0

(***************************************************************************)
(* C6: once constructed, the capabilities mapping is left unchanged by     *)
(* every later step of the run, and at completion it equals the literal:   *)
(* the same keys in the same order, each with its feature list.            *)
(***************************************************************************)
C6_MappingNeverMutated ==
  /\ [][(HasCaps /\ pc # PcDone) =>
          (("capabilities" \in DOMAIN locals') /\ locals'.capabilities = locals.capabilities)]_vars
  /\ [](Complete =>
          /\ HasCaps
          /\ locals.capabilities.order = [i \in 1..NumCategories |-> Label(i)]
          /\ \A i \in 1..NumCategories : locals.capabilities.map[Label(i)] = Features(i))

C6_Witness == pc = PcDone /\ HasCaps /\ itemsCalls = 1 /\ Bound("feature")

(***************************************************************************)
(* C7 (as stated): no output line is written before the mapping exists,    *)
(* and the mapping is iterated exactly once during the run.                *)
(***************************************************************************)
C7_NoOutputBeforeMapping ==
  /\ ~HasCaps => stdout = EmptyStream
  /\ itemsCalls <= 1
  /\ Complete => itemsCalls = 1

(***************************************************************************)
(* C7 (amended): before the mapping exists only the four banner lines      *)
(* (lines 8-11) are written, every other output line is written after the  *)
(* mapping is constructed, and the mapping is iterated exactly once during *)
(* the run.                                                                *)
(***************************************************************************)
C7_OnlyBannerBeforeMapping ==
  /\ ~HasCaps =>
       /\ stdout.cur = <<>>
       /\ IsPrefix(Out, <<Separator60, StmtLiteral[9], StmtLiteral[10], Separator60>>)
  /\ itemsCalls <= 1
  /\ Complete => itemsCalls = 1

C7_Witness == ~HasCaps /\ pc = 13 /\ Len(Out) = 4

(***************************************************************************)
(* C8: whenever the mapping exists, every category label is a non-empty    *)
(* string, every feature is a non-empty string, and every feature list     *)
(* holds exactly four features.                                            *)
(***************************************************************************)
C8_ValuesNonEmpty ==
  HasCaps =>
    LET d == locals.capabilities
    IN  /\ Len(d.order) > 0
        /\ \A i \in 1..Len(d.order) :
             /\ Len(d.order[i]) > 0
             /\ Len(d.map[d.order[i]]) = 4
             /\ \A k \in 1..Len(d.map[d.order[i]]) : Len(d.map[d.order[i]][k]) > 0

C8_Witness == HasCaps /\ pc = 60 /\ Len(iters) = 1 /\ iters[1] = Len(locals.capabilities.order)

(***************************************************************************)
(* C9: after a complete run every category section is, consecutively, one  *)
(* empty line, the label line, an underline of "-" only whose length is    *)
(* the number of code points of the label, and the feature bullet lines;   *)
(* the section is 3 + (number of features) lines long, the next section    *)
(* (or the blank line before the closing rule) following immediately.      *)
(***************************************************************************)
C9_SectionShape ==
  Complete =>
    \A i \in 1..NumCategories :
      /\ Positions(Label(i)) # {}
      /\ LET p == LabelPos(i)
             n == Len(Features(i))
         IN  /\ p > 1
             /\ p + 2 + n <= Len(Out)
             /\ Out[p - 1] = <<>>
             /\ Len(Out[p + 1]) = Len(Label(i))
             /\ \A x \in 1..Len(Out[p + 1]) : Out[p + 1][x] = DASH
             /\ \A k \in 1..n : Out[p + 1 + k] = BulletPrefix \o Features(i)[k]
             /\ Out[p + 2 + n] = <<>>
             /\ IF i < NumCategories
                  THEN LabelPos(i + 1) = p + 3 + n
                  ELSE Out[p + 3 + n] = Rule40

C9_Witness ==
  /\ pc = PcDone
  /\ \E p \in 1..Len(Out) : Out[p] = Label(NumCategories) /\ Out[p + 1] # <<>>

(***************************************************************************)
(* C10: in every state the lines that start with the bullet prefix are as  *)
(* many as the executions of the feature loop's body so far (24 after a    *)
(* complete run), all of them after the first 40-dash rule and before the  *)
(* second; the 40-dash rule occurs exactly twice in the complete output,   *)
(* and no category underline is 40 dashes long.                            *)
(***************************************************************************)
C10_BulletLinesAreFeatures ==
  /\ Cardinality(BulletLines) = FeaturesDone
  /\ Cardinality(RulePositions) <= 2
  /\ \A p \in BulletLines :
       /\ \E r \in RulePositions : r < p
       /\ Cardinality(RulePositions) = 2 => \E r \in RulePositions : p < r
  /\ \A i \in 1..NumCategories :
       /\ Len(Label(i)) # 40
       /\ \A p \in Positions(Label(i)) : p + 1 <= Len(Out) => Out[p + 1] # Rule40
  /\ Complete =>
       /\ Cardinality(BulletLines) = 24
       /\ Cardinality(RulePositions) = 2

C10_Witness == pc = PcDone /\ Cardinality(BulletLines) = 24 /\ Cardinality(RulePositions) = 2

=============================================================================
